---- MODULE Spec2Model ----
(***************************************************************************)
(* alfresco/misc/AlfTooltip: a widget that shows a lazily built            *)
(* dijit/TooltipDialog next to its DOM node, either after a mouseover      *)
(* delay (and hides it after a mouseout delay) or at once on another       *)
(* event such as click.                                                    *)
(*                                                                         *)
(* The model is the widget's fields, the browser's table of outstanding    *)
(* setTimeout callbacks, and whether dijit/popup has the tooltip open.     *)
(* Every handler of the widget is one action.  Time is counted in          *)
(* milliseconds and advances TickMs at a time.                             *)
(***************************************************************************)
EXTENDS Naturals, Sequences, FiniteSets

\* ---------------------------------------------------------------- bounds
\* Milliseconds that pass in one step of the clock.
TickMs == 125
\* Outstanding setTimeout callbacks the browser holds at one time.
MaxTimers == 2
\* Where the counts of calls stop counting.
MaxCalls == 2
\* Milliseconds that pass in one step of the fine clock.
FineMs == 50

\* ------------------------------------------------------ program constants
\* The widget's defaults, and the object new TooltipDialog returns.
null == 0
TooltipDialog == 1
DefaultDelay == 250
NoTimeout == 0
\* A delay a configuration sets in place of the default.
LongDelay == 2 * DefaultDelay
\* The delays a widget is configured with, mouseoverShowDelay and
\* mouseoutHideDelay: the defaults, or a longer mouseoverShowDelay.
Delays == {<<DefaultDelay, DefaultDelay>>, <<LongDelay, DefaultDelay>>}

VARIABLES
    \* configuration, fixed at construction
    widgetsForTooltip,      \* TRUE: a widget model for the tooltip was given
    widgets,                \* TRUE: a widget model to render at once was given
    triggeringEvent,        \* "mouseover" or another dojo/on event name
    mouseoverShowDelay,     \* ms from mouseover to showTooltip
    mouseoutHideDelay,      \* ms from mouseout to hideTooltip
    \* the widget
    pc,                     \* "created" | "attached" | "destroyed"
    listeners,              \* event names observed on this.domNode
    warned,                 \* alfLog("warn", ...) was called
    widgetsProcessed,       \* processWidgets(this.widgets, this.domNode) ran
    _tooltip,               \* null or the TooltipDialog
    _showTooltipTimeout,    \* last id returned by setTimeout(showTooltip)
    _hideTooltipTimeout,    \* last id returned by setTimeout(hideTooltip)
    \* the environment
    timers,                 \* outstanding setTimeout callbacks, oldest first
    popupOpen,              \* dijit/popup has the tooltip open
    \* what has happened so far
    built,                  \* processWidgets(widgetsForTooltip) calls that returned
    thrown,                 \* the call that threw in the handler that just ran
    lastEvent,              \* last event dispatched on this.domNode
    gap,                    \* ms since that event, counted while rapid
    rapid,                  \* every event so far came sooner than the delay
    stayShows,              \* showTooltip calls since the pointer came in
    held,                   \* "no" | "left" | "held" (see onTooltipMouseover)
    closedNull,             \* popup.close was called with null
    afterDestroy            \* a timer callback ran after destroy

cfgVars == <<widgetsForTooltip, widgets, triggeringEvent, mouseoverShowDelay,
            mouseoutHideDelay>>
widgetVars == <<pc, listeners, warned, widgetsProcessed>>
tipVars == <<_tooltip, popupOpen, built, stayShows>>
timerVars == <<_showTooltipTimeout, _hideTooltipTimeout, timers>>
eventVars == <<lastEvent, gap, rapid>>
vars == <<cfgVars, widgetVars, tipVars, timerVars, eventVars, thrown, held,
          closedNull, afterDestroy>>

\* ---------------------------------------------------------------- helpers
Min(a, b) == IF a < b THEN a ELSE b
Max(a, b) == IF a > b THEN a ELSE b
Monus(a, b) == IF a > b THEN a - b ELSE 0
GapCap == Max(DefaultDelay, LongDelay)
Events == {"mouseover", "mouseout", "click"}
Throws == {"none", "build", "create", "open"}

\* ----------------------------------------------------- setTimeout / clearTimeout
\* setTimeout returns a positive id that no outstanding callback has.  The
\* widget stores every id at once in the field of its kind, so the only id
\* a new one must also differ from is the one the other field still holds:
\* ids of showTooltip callbacks are odd here and those of hideTooltip even.
IdsOf(kind) ==
    {n \in 1..(2 * MaxTimers + 2) : (n % 2 = 1) <=> (kind = "show")}
FreshId(ts, kind) ==
    LET used == {ts[i].id : i \in 1..Len(ts)}
        free == IdsOf(kind) \ used
    IN  CHOOSE n \in free : \A m \in free : n <= m
setTimeout(ts, kind, delay) ==
    Append(ts, [id |-> FreshId(ts, kind), kind |-> kind, rem |-> delay])
\* The id of the callback setTimeout added last.
LastId(ts) == ts[Len(ts)].id
IsNot(id, t) == t.id # id
clearTimeout(ts, id) ==
    LET Keep(t) == IsNot(id, t) IN SelectSeq(ts, Keep)
Live(kind) == {i \in 1..Len(timers) : timers[i].kind = kind}
Due == {i \in 1..Len(timers) : timers[i].rem = 0}
\* The browser runs the oldest callback whose delay has passed.
FirstDue == CHOOSE i \in Due : \A j \in Due : i <= j
Without(ts, i) == SubSeq(ts, 1, i - 1) \o SubSeq(ts, i + 1, Len(ts))

\* ------------------------------------------------------------------ Init
Init ==
    /\ widgetsForTooltip \in BOOLEAN
    /\ widgets \in BOOLEAN
    /\ triggeringEvent \in {"mouseover", "click"}
    \* a widget to hover over has content to hover over
    /\ (widgetsForTooltip /\ triggeringEvent = "mouseover") => widgets
    /\ \E d \in Delays : mouseoverShowDelay = d[1] /\ mouseoutHideDelay = d[2]
    /\ pc = "created"
    /\ listeners = {}
    /\ warned = FALSE
    /\ widgetsProcessed = FALSE
    /\ _tooltip = null
    /\ _showTooltipTimeout = NoTimeout
    /\ _hideTooltipTimeout = NoTimeout
    /\ timers = <<>>
    /\ popupOpen = FALSE
    /\ built = 0
    /\ thrown = "none"
    /\ lastEvent = "none"
    /\ gap = 0
    /\ rapid = TRUE
    /\ stayShows = 0
    /\ held = "no"
    /\ closedNull = FALSE
    /\ afterDestroy = FALSE

\* ------------------------------------------------------------ postCreate
\* As Observers, but listening for mouseover whatever triggeringEvent is.
ObserversAlwaysHover ==
    IF widgetsForTooltip THEN {"mouseover", "mouseout"} ELSE {}

\* As Observers, but without the test of widgetsForTooltip.
ObserversUnguarded ==
    IF triggeringEvent = "mouseover"
    THEN {"mouseover", "mouseout"}
    ELSE {triggeringEvent}

\* As Observers, but with mouseout observed beside another triggeringEvent.
ObserversAndMouseout ==
    IF widgetsForTooltip
    THEN IF triggeringEvent = "mouseover"
         THEN {"mouseover", "mouseout"}
         ELSE {triggeringEvent, "mouseout"}
    ELSE {}

\* The observers postCreate puts on this.domNode.
Observers ==
    IF widgetsForTooltip
    THEN IF triggeringEvent = "mouseover"
         THEN {"mouseover", "mouseout"}
         ELSE {triggeringEvent}
    ELSE {}

postCreate ==
    /\ pc = "created"
    /\ pc' = "attached"
    /\ listeners' = Observers
    /\ warned' = ~widgetsForTooltip
    /\ widgetsProcessed' = widgets
    /\ thrown' = "none"
    /\ UNCHANGED <<cfgVars, tipVars, timerVars, eventVars, held, closedNull,
                   afterDestroy>>

\* The widget debounces: mouseover and mouseout are observed.
Hover == widgetsForTooltip /\ triggeringEvent = "mouseover"
\* The pointer came over this.domNode and has not left.
InStay == Hover /\ lastEvent = "mouseover"

\* ----------------------------------------------------------- showTooltip
\* As TooltipMissing, but building the tooltip on every call.
TooltipAlwaysMissing == TRUE

\* if (!this._tooltip)
TooltipMissing == _tooltip = null

\* The calls showTooltip makes, in order: processWidgets, new TooltipDialog,
\* popup.open.  `outcome` names the call that throws, or "none".  A call
\* that is not made cannot throw.
CanThrow == IF TooltipMissing THEN Throws ELSE {"none", "open"}

\* As TooltipAfter, but with this._tooltip assigned before the content is
\* built, so that a throw leaves it set.
TooltipAfterEarly(outcome) ==
    IF TooltipMissing THEN TooltipDialog ELSE _tooltip

\* this._tooltip after the call: it is assigned when the constructor returns.
TooltipAfter(outcome) ==
    IF TooltipMissing /\ outcome \notin {"build", "create"}
    THEN TooltipDialog
    ELSE _tooltip

\* As showTooltip, but without the popup.open.
showTooltipNoOpen(outcome) ==
    /\ outcome \in CanThrow
    /\ built' = IF TooltipMissing /\ outcome # "build"
                THEN Min(built + 1, MaxCalls) ELSE built
    /\ _tooltip' = TooltipAfter(outcome)
    /\ popupOpen' = popupOpen
    /\ thrown' = outcome
    /\ stayShows' = IF InStay THEN Min(stayShows + 1, MaxCalls) ELSE stayShows

showTooltip(outcome) ==
    /\ outcome \in CanThrow
    /\ built' = IF TooltipMissing /\ outcome # "build"
                THEN Min(built + 1, MaxCalls) ELSE built
    /\ _tooltip' = TooltipAfter(outcome)
    /\ popupOpen' = IF outcome = "none" THEN TRUE ELSE popupOpen
    /\ thrown' = outcome
    /\ stayShows' = IF InStay THEN Min(stayShows + 1, MaxCalls) ELSE stayShows

\* ----------------------------------------------------------- hideTooltip
\* popup.close(this._tooltip), whatever this._tooltip is.
hideTooltip ==
    /\ closedNull' = (closedNull \/ _tooltip = null)
    /\ popupOpen' = FALSE
    /\ thrown' = "none"

\* -------------------------------------------------------- mouse handlers
\* As onMouseover, but without the setTimeout.
onMouseoverNoShow ==
    /\ timers' = clearTimeout(timers, _hideTooltipTimeout)
    /\ UNCHANGED <<_showTooltipTimeout, _hideTooltipTimeout>>

onMouseover ==
    /\ timers' = setTimeout(clearTimeout(timers, _hideTooltipTimeout),
                            "show", mouseoverShowDelay)
    /\ _showTooltipTimeout' = LastId(timers')
    /\ UNCHANGED _hideTooltipTimeout

\* As onMouseout, but without the clearTimeout.
onMouseoutNoClear ==
    /\ timers' = setTimeout(timers, "hide", mouseoutHideDelay)
    /\ _hideTooltipTimeout' = LastId(timers')
    /\ UNCHANGED _showTooltipTimeout

\* As onMouseout, but without the setTimeout.
onMouseoutNoHide ==
    /\ timers' = clearTimeout(timers, _showTooltipTimeout)
    /\ UNCHANGED <<_showTooltipTimeout, _hideTooltipTimeout>>

onMouseout ==
    /\ timers' = setTimeout(clearTimeout(timers, _showTooltipTimeout),
                            "hide", mouseoutHideDelay)
    /\ _hideTooltipTimeout' = LastId(timers')
    /\ UNCHANGED _showTooltipTimeout

\* As onTooltipMouseover, but scheduling a showTooltip as onMouseover does.
onTooltipMouseoverShows ==
    /\ timers' = setTimeout(clearTimeout(timers, _hideTooltipTimeout),
                            "show", mouseoverShowDelay)
    /\ _showTooltipTimeout' = LastId(timers')
    /\ UNCHANGED _hideTooltipTimeout

onTooltipMouseover ==
    /\ timers' = clearTimeout(timers, _hideTooltipTimeout)
    /\ UNCHANGED <<_showTooltipTimeout, _hideTooltipTimeout>>

onTooltipMouseout ==
    /\ timers' = setTimeout(timers, "hide", mouseoutHideDelay)
    /\ _hideTooltipTimeout' = LastId(timers')
    /\ UNCHANGED _showTooltipTimeout

\* An event sooner after the last one than the delay that one started.
Sooner ==
    \/ lastEvent = "none"
    \/ lastEvent = "mouseover" /\ gap < mouseoverShowDelay
    \/ lastEvent = "mouseout" /\ gap < mouseoutHideDelay

\* The live hide callback this._hideTooltipTimeout names has time left.
HidePending ==
    \E i \in 1..Len(timers) :
        /\ timers[i].id = _hideTooltipTimeout
        /\ timers[i].rem > 0

\* ------------------------------------------- events on this.domNode
\* The handlers are called in whatever order events arrive: nothing in the
\* widget orders them.  An event that would leave more than MaxTimers
\* callbacks outstanding is not taken.
\* A mouseover reaches this.domNode.
Mouseover ==
    /\ pc = "attached"
    /\ lastEvent' = "mouseover"
    /\ IF "mouseover" \in listeners
       THEN /\ Len(clearTimeout(timers, _hideTooltipTimeout)) < MaxTimers
            /\ onMouseover
            /\ gap' = 0
            /\ rapid' = (rapid /\ Sooner)
            /\ stayShows' = IF lastEvent = "mouseover" THEN stayShows ELSE 0
            /\ held' = IF held = "held" THEN "held" ELSE "no"
       ELSE UNCHANGED <<timerVars, gap, rapid, stayShows, held>>
    /\ thrown' = "none"
    /\ UNCHANGED <<cfgVars, widgetVars, _tooltip, popupOpen, built, closedNull, afterDestroy>>

\* A mouseout reaches this.domNode.
Mouseout ==
    /\ pc = "attached"
    /\ lastEvent' = "mouseout"
    /\ IF "mouseout" \in listeners
       THEN /\ Len(clearTimeout(timers, _showTooltipTimeout)) < MaxTimers
            /\ onMouseout
            /\ gap' = 0
            /\ rapid' = (rapid /\ Sooner)
            /\ stayShows' = 0
            /\ held' = IF popupOpen THEN "left" ELSE "no"
       ELSE UNCHANGED <<timerVars, gap, rapid, stayShows, held>>
    /\ thrown' = "none"
    /\ UNCHANGED <<cfgVars, widgetVars, _tooltip, popupOpen, built, closedNull, afterDestroy>>

\* The configured event, when it is not mouseover, reaches this.domNode.
Trigger(outcome) ==
    /\ pc = "attached"
    /\ triggeringEvent # "mouseover"
    /\ lastEvent' = triggeringEvent
    /\ IF triggeringEvent \in listeners
       THEN showTooltip(outcome)
       ELSE /\ outcome = "none"
            /\ thrown' = "none"
            /\ UNCHANGED tipVars
    /\ UNCHANGED <<cfgVars, widgetVars, timerVars, gap, rapid, held,
                   closedNull, afterDestroy>>

\* ------------------------------------- events on the TooltipDialog
\* The dialog's callbacks exist once it is constructed.  Events on it are
\* followed while the widget is attached.
\* onMouseEnter of the TooltipDialog.
TooltipMouseEnter ==
    /\ pc = "attached"
    /\ _tooltip # null
    /\ onTooltipMouseover
    /\ held' = IF held = "held" \/ (held = "left" /\ popupOpen /\ HidePending)
               THEN "held" ELSE "no"
    /\ thrown' = "none"
    /\ UNCHANGED <<cfgVars, widgetVars, tipVars, eventVars, closedNull,
                   afterDestroy>>

\* onMouseLeave of the TooltipDialog.
TooltipMouseLeave ==
    /\ pc = "attached"
    /\ _tooltip # null
    /\ Len(timers) < MaxTimers
    /\ onTooltipMouseout
    /\ held' = "no"
    /\ thrown' = "none"
    /\ UNCHANGED <<cfgVars, widgetVars, tipVars, eventVars, closedNull,
                   afterDestroy>>

\* ------------------------------------------------------------ the clock
Elapse(t, ms) == [t EXCEPT !.rem = Monus(t.rem, ms)]
\* The time since the last event, ms later.
GapAfter(ms) ==
    IF Hover /\ rapid /\ lastEvent # "none"
    THEN Min(gap + ms, GapCap) ELSE gap

\* TickMs pass with no callback waiting to run.
Tick ==
    /\ pc # "created"
    /\ Due = {}
    /\ timers' = [i \in 1..Len(timers) |-> Elapse(timers[i], TickMs)]
    /\ gap' = GapAfter(TickMs)
    /\ thrown' = "none"
    /\ UNCHANGED <<cfgVars, widgetVars, tipVars, _showTooltipTimeout,
                   _hideTooltipTimeout, lastEvent, rapid, held, closedNull,
                   afterDestroy>>

\* The callback of setTimeout(lang.hitch(this, this.showTooltip), ...) runs.
ShowTimerFires(outcome) ==
    /\ Due # {}
    /\ timers[FirstDue].kind = "show"
    /\ timers' = Without(timers, FirstDue)
    /\ showTooltip(outcome)
    /\ afterDestroy' = (afterDestroy \/ pc = "destroyed")
    /\ UNCHANGED <<cfgVars, widgetVars, _showTooltipTimeout,
                   _hideTooltipTimeout, eventVars, held, closedNull>>

\* The callback of setTimeout(lang.hitch(this, this.hideTooltip), ...) runs.
HideTimerFires ==
    /\ Due # {}
    /\ timers[FirstDue].kind = "hide"
    /\ timers' = Without(timers, FirstDue)
    /\ hideTooltip
    /\ afterDestroy' = (afterDestroy \/ pc = "destroyed")
    /\ UNCHANGED <<cfgVars, widgetVars, _tooltip, built,
                   stayShows, _showTooltipTimeout, _hideTooltipTimeout,
                   eventVars, held>>

\* --------------------------------------------------------------- destroy
\* The widget defines no destroy of its own: _WidgetBase's runs, which
\* removes this.domNode and knows nothing of the timers or the tooltip.
destroy ==
    /\ pc = "attached"
    /\ pc' = "destroyed"
    /\ listeners' = {}
    /\ thrown' = "none"
    \* with this.domNode gone the pointer is over it no longer
    /\ lastEvent' = "none"
    /\ gap' = 0
    /\ rapid' = TRUE
    /\ stayShows' = 0
    /\ held' = "no"
    /\ UNCHANGED <<cfgVars, warned, widgetsProcessed, _tooltip, popupOpen,
                   built, timerVars, closedNull, afterDestroy>>

Next ==
    \/ postCreate
    \/ Mouseover
    \/ Mouseout
    \/ \E outcome \in Throws : Trigger(outcome)
    \/ TooltipMouseEnter
    \/ TooltipMouseLeave
    \/ Tick
    \/ \E outcome \in Throws : ShowTimerFires(outcome)
    \/ HideTimerFires
    \/ destroy

Spec == Init /\ [][Next]_vars

\* ------------------------------------------- one mouseout, on a fine clock
\* The pointer comes over this.domNode, may leave once LeaveAfter later and
\* may come back ReenterAfter after that; the clock advances FineMs at a
\* time.
LeaveAfter == 2 * FineMs
ReenterAfter == FineMs

\* No mouseout has been handled yet.
NeverLeft == _hideTooltipTimeout = NoTimeout

FineEnter ==
    /\ \/ lastEvent = "none"
       \/ lastEvent = "mouseout" /\ gap = ReenterAfter
    /\ Mouseover

FineLeave ==
    /\ lastEvent = "mouseover"
    /\ NeverLeft
    /\ gap = LeaveAfter
    /\ Mouseout

\* FineMs pass with no callback waiting to run.
FineTick ==
    /\ pc # "created"
    /\ Due = {}
    /\ timers' = [i \in 1..Len(timers) |-> Elapse(timers[i], FineMs)]
    /\ gap' = GapAfter(FineMs)
    /\ thrown' = "none"
    /\ UNCHANGED <<cfgVars, widgetVars, tipVars, _showTooltipTimeout,
                   _hideTooltipTimeout, lastEvent, rapid, held, closedNull,
                   afterDestroy>>

NextFine ==
    \/ postCreate
    \/ FineEnter
    \/ FineLeave
    \/ FineTick
    \/ \E outcome \in Throws : ShowTimerFires(outcome)
    \/ HideTimerFires

SpecFine == Init /\ [][NextFine]_vars

TypeOK ==
    /\ pc \in {"created", "attached", "destroyed"}
    /\ listeners \subseteq Events
    /\ _tooltip \in {null, TooltipDialog}
    /\ built \in 0..MaxCalls
    /\ Len(timers) <= MaxTimers
    /\ thrown \in Throws
    /\ gap \in 0..GapCap
    /\ \A i, j \in 1..Len(timers) : timers[i].id = timers[j].id => i = j

\* =================================================================== claims

\* A step in which showTooltip runs.
ShowStep ==
    \E outcome \in Throws :
        \/ ShowTimerFires(outcome)
        \/ Trigger(outcome) /\ triggeringEvent \in listeners

\* ----------------------------------------------------------------- C1
\* C1: in every reachable state at most one showTooltip callback and at
\* most one hideTooltip callback is outstanding, and each outstanding one is
\* the one most recently requested (the one the widget's field names).
C1_OneTimerOfEachKind ==
    /\ Cardinality(Live("show")) <= 1
    /\ Cardinality(Live("hide")) <= 1
    /\ \A i \in Live("show") : timers[i].id = _showTooltipTimeout
    /\ \A i \in Live("hide") : timers[i].id = _hideTooltipTimeout

\* ----------------------------------------------------------------- C2
\* C2 as stated: over the widget's whole life the tooltip content is built at
\* most once.
C2_BuiltAtMostOnce == built <= 1

\* C2: the TooltipDialog is constructed at most once: once this._tooltip is
\* set it is never cleared or replaced, and no later showTooltip builds the
\* content again.  (The content is built again only while this._tooltip is
\* still null, that is after a showTooltip that threw before assigning it.)
C2_ConstructedOnce ==
    /\ [](_tooltip # null => built >= 1)
    /\ [][_tooltip # null => (_tooltip' = _tooltip /\ built' = built)]_vars

\* A second showTooltip during one stay of the pointer reused the tooltip.
C2_Witness == _tooltip # null /\ built = 1 /\ stayShows = 2 /\ popupOpen

\* ----------------------------------------------------------------- C3
\* C3: while mouseover / mouseout events keep arriving sooner than the delay
\* the previous one started, and after such a run has ended with a mouseout,
\* the tooltip is not open.
C3_RapidNeverShown ==
    (/\ Hover
     /\ rapid
     /\ \/ lastEvent = "mouseout"
        \/ lastEvent = "mouseover" /\ gap < mouseoverShowDelay)
    => ~popupOpen

C5_StaysOpenOverTooltip == held = "held" => popupOpen

\* ----------------------------------------------------------------- C6
\* C6: after destroy no callback is outstanding, none runs, and the tooltip
\* is not left open.
C6_NothingAfterDestroy ==
    pc = "destroyed" => (timers = <<>> /\ ~afterDestroy /\ ~popupOpen)

\* ----------------------------------------------------------------- C7
\* C7: popup.close is never called with a null this._tooltip.
C7_CloseOnlyPresent == ~closedNull

\* ----------------------------------------------------------------- C8
\* C8: with a triggering event other than mouseover, postCreate observes that
\* event alone; the event runs showTooltip in the same step, so the tooltip
\* is open at once unless a call in showTooltip threw, and neither that event
\* nor a mouseover or mouseout on this.domNode touches a timer.
C8_ExplicitEventShowsAtOnce ==
    /\ [](pc = "attached" /\ widgetsForTooltip /\ ~Hover
            => listeners = {triggeringEvent})
    /\ [][(\E outcome \in Throws : Trigger(outcome)) /\ widgetsForTooltip
            => /\ UNCHANGED timerVars
               /\ thrown' = "none" => popupOpen' /\ _tooltip' # null]_vars
    /\ [][(Mouseover \/ Mouseout) /\ ~Hover => UNCHANGED timerVars]_vars

\* One click has opened a tooltip that did not exist, with no timer about.
C8_Witness ==
    /\ widgetsForTooltip
    /\ triggeringEvent = "click"
    /\ lastEvent = "click"
    /\ popupOpen
    /\ built = 1
    /\ timers = <<>>
    /\ _showTooltipTimeout = NoTimeout
    /\ _hideTooltipTimeout = NoTimeout

\* ----------------------------------------------------------------- C9
\* C9: without widgetsForTooltip postCreate warns, still processes widgets,
\* and whatever events reach this.domNode no timer is set and showTooltip
\* never runs: nothing is built, created or opened.
C9_NoTooltipModel ==
    (~widgetsForTooltip /\ pc # "created") =>
        /\ warned
        /\ widgets => widgetsProcessed
        /\ listeners = {}
        /\ timers = <<>>
        /\ _showTooltipTimeout = NoTimeout /\ _hideTooltipTimeout = NoTimeout
        /\ built = 0 /\ _tooltip = null /\ ~popupOpen /\ thrown = "none"

\* Events have reached the node of a widget built without widgetsForTooltip.
C9_Witness ==
    /\ ~widgetsForTooltip
    /\ widgets /\ widgetsProcessed /\ warned
    /\ lastEvent \in {"mouseover", "click"}

\* ---------------------------------------------------------------- C10
\* C10 as stated: whenever a call in showTooltip throws, this._tooltip is
\* left null.
C10_ThrowLeavesNull == thrown # "none" => _tooltip = null

\* C10: when processWidgets or new TooltipDialog throws, this._tooltip is
\* left null and the next showTooltip builds again; when popup.open throws,
\* this._tooltip is already set, and the next showTooltip only opens it.
C10_ThrowThenRetry ==
    /\ [](thrown \in {"build", "create"} => _tooltip = null)
    /\ [](thrown = "open" => _tooltip # null)
    /\ [][ShowStep /\ _tooltip = null
            => \/ thrown' = "build"
               \/ built' = built + 1
               \/ built = MaxCalls]_vars
    /\ [][ShowStep /\ _tooltip # null
            => built' = built /\ thrown' \in {"none", "open"}]_vars

\* The constructor threw, and a later showTooltip built again and got through.
C10_Witness == built = 2 /\ _tooltip # null /\ popupOpen

\* ---------------------------------------------------------------- C11
\* C11: after a mouseout on this.domNode, and until the next mouseover, no
\* showTooltip callback is outstanding: every one scheduled before the
\* mouseout was cancelled by it, so none can open the tooltip once the
\* pointer has left.
C11_LeaveCancelsShow ==
    (Hover /\ lastEvent = "mouseout") => Live("show") = {}

\* ---------------------------------------------------------------- C12
\* C12: a mouseover on this.domNode leaves no hideTooltip callback
\* outstanding: every one scheduled by an earlier mouseout or tooltip
\* mouseleave was cancelled by it.
C12_EnterCancelsHide ==
    [][Mouseover /\ "mouseover" \in listeners => Live("hide")' = {}]_vars

\* ---------------------------------------------------------------- C13
\* C13 as stated: every reachable state of a hover widget is Idle (no timer,
\* tooltip closed), PendingShow (a showTooltip callback outstanding), Shown
\* (tooltip open, no timer) or PendingHide (a hideTooltip callback
\* outstanding, tooltip open).
C13_FourStates ==
    LET Idle == timers = <<>> /\ ~popupOpen
        PendingShow == Live("show") # {}
        Shown == popupOpen /\ timers = <<>>
        PendingHide == Live("hide") # {} /\ popupOpen
    IN  Hover => (Idle \/ PendingShow \/ Shown \/ PendingHide)

\* C13: a hover widget starts with no timer and the tooltip closed, and
\* moves as follows.  A mouseover cancels the hideTooltip callback the widget
\* tracks and leaves a showTooltip callback for mouseoverShowDelay
\* outstanding.  A mouseout cancels the tracked showTooltip callback and
\* leaves a hideTooltip callback for mouseoutHideDelay outstanding, whether
\* or not the tooltip is open.  A tooltip mouseenter cancels the tracked
\* hideTooltip callback and a tooltip mouseleave leaves one outstanding.  A
\* showTooltip callback that runs opens the tooltip unless a call in it
\* throws, a hideTooltip callback that runs closes it, and nothing else
\* opens or closes it.
C13_HoverTransitions ==
    /\ []((Hover /\ pc = "created") => (timers = <<>> /\ ~popupOpen))
    /\ [][(Hover /\ Mouseover) =>
            /\ \E i \in Live("show")' :
                   /\ timers'[i].id = _showTooltipTimeout'
                   /\ timers'[i].rem = mouseoverShowDelay
            /\ \A i \in Live("hide")' : timers'[i].id # _hideTooltipTimeout
            /\ popupOpen' = popupOpen]_vars
    /\ [][(Hover /\ Mouseout) =>
            /\ \E i \in Live("hide")' :
                   /\ timers'[i].id = _hideTooltipTimeout'
                   /\ timers'[i].rem = mouseoutHideDelay
            /\ \A i \in Live("show")' : timers'[i].id # _showTooltipTimeout
            /\ popupOpen' = popupOpen]_vars
    /\ [][(Hover /\ TooltipMouseEnter) =>
            /\ \A i \in Live("hide")' : timers'[i].id # _hideTooltipTimeout
            /\ Live("show")' = Live("show")
            /\ popupOpen' = popupOpen]_vars
    /\ [][(Hover /\ TooltipMouseLeave) =>
            /\ \E i \in Live("hide")' :
                   /\ timers'[i].id = _hideTooltipTimeout'
                   /\ timers'[i].rem = mouseoutHideDelay
            /\ popupOpen' = popupOpen]_vars
    /\ [][(Hover /\ \E outcome \in Throws : ShowTimerFires(outcome)) =>
            popupOpen' = (popupOpen \/ thrown' = "none")]_vars
    /\ [][(Hover /\ HideTimerFires) => ~popupOpen']_vars
    /\ [][(Hover /\ popupOpen' # popupOpen) =>
            \/ \E outcome \in Throws : ShowTimerFires(outcome)
            \/ HideTimerFires]_vars

\* A mouseout has left a hideTooltip callback outstanding with the tooltip
\* closed and never built: a state that is none of the four.
C13_Witness ==
    /\ Hover
    /\ lastEvent = "mouseout"
    /\ Live("hide") # {}
    /\ Live("show") = {}
    /\ ~popupOpen
    /\ _tooltip = null

\* ---------------------------------------------------------------- C14
\* C14: when a mouseout came while the tooltip was open and no mouseover and
\* no tooltip event has followed, then once no hideTooltip callback is left
\* to run the tooltip is closed and no timer is outstanding.
C14_LeaveClosesToIdle ==
    (Hover /\ held = "left" /\ Live("hide") = {})
        => (~popupOpen /\ timers = <<>>)

\* ---------------------------------------------------------------- C15
\* C15: after mouseover, mouseout LeaveAfter later and mouseover again
\* ReenterAfter after that, with no further mouseout, showTooltip does not
\* run and the tooltip is not open until mouseoverShowDelay has passed since
\* the second mouseover; then the one outstanding callback, the one the
\* second mouseover scheduled, runs showTooltip, once, and opens the tooltip
\* unless a call in it throws.  Neither the callback of the first mouseover
\* nor the hideTooltip callback of the mouseout runs.
C15_ShownAfterLastEnter ==
    /\ []((InStay /\ ~NeverLeft) =>
            /\ stayShows <= 1
            /\ stayShows = 0 =>
                  /\ ~popupOpen /\ built = 0 /\ ~closedNull
                  /\ Len(timers) = 1
                  /\ timers[1].kind = "show"
                  /\ timers[1].id = _showTooltipTimeout
                  /\ timers[1].rem = Monus(mouseoverShowDelay, gap)
            /\ stayShows = 1 =>
                  /\ gap >= mouseoverShowDelay
                  /\ timers = <<>>
                  /\ ~closedNull)
    /\ [][(InStay /\ ~NeverLeft /\
              \E outcome \in Throws : ShowTimerFires(outcome)) =>
            /\ gap >= mouseoverShowDelay
            /\ thrown' = "none" => popupOpen']_vars

\* Both delays 250: mouseover at 0, mouseout at 100, mouseover at 150, and
\* 250 ms on, at 400, the tooltip has just been opened.
C15_Witness ==
    /\ mouseoverShowDelay = DefaultDelay
    /\ mouseoutHideDelay = DefaultDelay
    /\ InStay /\ ~NeverLeft
    /\ gap = DefaultDelay
    /\ stayShows = 1
    /\ built = 1
    /\ popupOpen

\* ---------------------------------------------------------------- C16
\* C16: a tooltip mouseenter adds no timer, takes away no timer but the
\* hideTooltip callback this._hideTooltipTimeout names, and leaves the
\* showTooltip callbacks, both timeout fields, this._tooltip and the open
\* or closed tooltip as they were.
C16_EnterOnlyCancelsHide ==
    [][TooltipMouseEnter =>
        /\ \A i \in 1..Len(timers') :
               \E j \in 1..Len(timers) : timers[j] = timers'[i]
        /\ \A j \in 1..Len(timers) :
               \/ timers[j].id = _hideTooltipTimeout
               \/ \E i \in 1..Len(timers') : timers'[i] = timers[j]
        /\ \A i \in 1..Len(timers') : timers'[i].id # _hideTooltipTimeout
        /\ Cardinality(Live("show")') = Cardinality(Live("show"))
        /\ UNCHANGED <<_showTooltipTimeout, _hideTooltipTimeout, _tooltip,
                       popupOpen, built>>]_vars

\* A mouseout from the open tooltip's node scheduled a hideTooltip, and a
\* tooltip mouseenter cancelled it.
C16_Witness ==
    /\ held = "held"
    /\ lastEvent = "mouseout"
    /\ popupOpen
    /\ timers = <<>>
    /\ _hideTooltipTimeout # NoTimeout

\* ---------------------------------------------------------------- C17
\* C17: every showTooltip in which no call throws ends with this._tooltip
\* set and the tooltip open; a showTooltip that runs while the tooltip is
\* open builds and constructs nothing, keeps this._tooltip and both
\* timeout fields, and leaves every outstanding callback outstanding (the
\* one that is running it apart); all it does is call popup.open again.
C17_ShowIdempotent ==
    /\ [][(thrown' = "none" /\ ShowStep) =>
            (_tooltip' # null /\ popupOpen')]_vars
    /\ [][(popupOpen /\ ShowStep) =>
            /\ _tooltip' = _tooltip
            /\ built' = built
            /\ popupOpen'
            /\ thrown' \in {"none", "open"}
            /\ UNCHANGED <<_showTooltipTimeout, _hideTooltipTimeout>>
            /\ \/ timers' = timers
               \/ Due # {} /\ timers' = Without(timers, FirstDue)]_vars

\* A second showTooltip has run during one stay, the tooltip open since the
\* first, and no callback is left.
C17_Witness ==
    /\ InStay
    /\ stayShows = 2
    /\ built = 1
    /\ _tooltip # null
    /\ popupOpen
    /\ thrown = "none"
    /\ timers = <<>>

\* ---------------------------------------------------------------- C18
\* C18: with a triggering event other than mouseover no showTooltip callback
\* is ever scheduled, a hideTooltip callback is scheduled by a tooltip
\* mouseleave only, the open tooltip is closed by a hideTooltip callback
\* only, and the triggering event opens it again afterwards unless a call
\* in showTooltip throws.
C18_ClickClosesByTooltipLeave ==
    /\ []((widgetsForTooltip /\ ~Hover) => Live("show") = {})
    /\ [][(widgetsForTooltip /\ ~Hover
              /\ Cardinality(Live("hide")') > Cardinality(Live("hide")))
            => TooltipMouseLeave]_vars
    /\ [][(widgetsForTooltip /\ ~Hover /\ popupOpen /\ ~popupOpen')
            => HideTimerFires]_vars
    /\ [][(widgetsForTooltip /\ ~Hover /\ ~popupOpen /\ _tooltip # null
              /\ (\E outcome \in Throws : Trigger(outcome))
              /\ thrown' = "none")
            => popupOpen' /\ built' = built]_vars

\* The tooltip a click built is closed again, the hideTooltip callback of a
\* tooltip mouseleave gone, and the widget still attached.
C18_Witness ==
    /\ widgetsForTooltip
    /\ triggeringEvent = "click"
    /\ lastEvent = "click"
    /\ pc = "attached"
    /\ _tooltip # null
    /\ ~popupOpen
    /\ _hideTooltipTimeout # NoTimeout
    /\ timers = <<>>

====
